---- MODULE Spec2Model ----
(***************************************************************************)
(* The order_processing_incremental DAG of src/order_processing_incremental *)
(* .py as a state machine: the bucket, the staging, fact, aggregate and     *)
(* findings tables, and the task instances of each DAG run.                 *)
(*                                                                          *)
(* Money is counted in thousandths of a currency unit (45.00 is 45000), so  *)
(* that ROUND(x, 2) and the 0.01 tolerance are real operations on integers. *)
(* A nullable SQL number is a sequence: << >> is NULL, <<v>> is the value.  *)
(* A nullable SQL string uses the string "NULL".                            *)
(***************************************************************************)
EXTENDS Integers, Sequences, FiniteSets, Bags, TLC

\* ------------------------------------------------------------- bounds
MaxRuns == 2
MaxDay == 2

\* ------------------------------------------------ program constants
retries == 2
poke_interval == 60
timeout == 600
Tolerance == 10

GCS_ORDER_PREFIX == <<"landing", "orders">>

Runs == 1..MaxRuns

\* --------------------------------------------------- input universe
\* Input objects as generate_orders writes them: newline-delimited order
\* records.  One record per line; an object may repeat a record.
Item(p, q, u) == [product_id |-> p, quantity |-> q, unit_price |-> u]

Order(id, cust, day, hour, minute, items, total, st) ==
    [order_id |-> id, customer_id |-> cust,
     order_timestamp |-> [date |-> day, hour |-> hour, minute |-> minute],
     items |-> items, total_amount |-> total,
     payment_status |-> "completed", state |-> st]

\* O1: two items, 2*10.00 + 25.00 = 45.00 recorded 45.00
O1 == Order("O1", "CUST-1", 1, 10, 5, <<Item("PROD-1", 2, 10000), Item("PROD-2", 1, 25000)>>, 45000, "CA")
\* O2: one item, totals match
O2 == Order("O2", "CUST-2", 1, 10, 40, <<Item("PROD-1", 1, 10000)>>, 10000, "NY")
\* O3: items sum to 45.00, recorded 50.00
O3 == Order("O3", "CUST-1", 1, 11, 0, <<Item("PROD-1", 2, 10000), Item("PROD-2", 1, 25000)>>, 50000, "TX")
\* O4: 2 * 5.007 = 10.014, rounds to 10.01, recorded 10.00
O4 == Order("O4", "CUST-2", 1, 11, 30, <<Item("PROD-2", 2, 5007)>>, 10000, "IL")
\* O5: no line items, recorded 50.00, no shipping address
O5 == Order("O5", "CUST-1", 1, 10, 59, << >>, 50000, "NULL")

FileNames == {"a", "b"}

FileRows(f) ==
    CASE f = "a" -> <<O1, O3, O5>>
      [] f = "b" -> <<O2, O4>>

\* A blob name: its directory segments, its file stem and its extension.
Blob(path, f, ext) == [path |-> path, file |-> f, ext |-> ext]

LandingBlob(f) == Blob(GCS_ORDER_PREFIX, f, "json")

\* dim_customers and dim_products, read-only lookups of the transform.
dim_customers == {[customer_id |-> "CUST-1", customer_tier |-> "gold"]}

dim_products == {[product_id |-> "PROD-1", product_name |-> "Widget", category |-> "Books"]}

\* --------------------------------------------------------- helpers
Abs(x) == IF x < 0 THEN 0 - x ELSE x

\* ROUND(x, 2) on thousandths, halves away from zero.
Round2(x) == IF x >= 0 THEN ((x + 5) \div 10) * 10 ELSE 0 - (((0 - x) + 5) \div 10) * 10

RECURSIVE SeqSum(_)
SeqSum(s) == IF s = << >> THEN 0 ELSE Head(s) + SeqSum(Tail(s))

RECURSIVE SetSum(_, _)
\* the sum of f[x] over the finite set S
SetSum(f, S) ==
    IF S = {} THEN 0
    ELSE LET x == CHOOSE y \in S : TRUE IN f[x] + SetSum(f, S \ {x})

RECURSIVE BagOfSeq(_)
BagOfSeq(s) == IF s = << >> THEN EmptyBag ELSE SetToBag({Head(s)}) (+) BagOfSeq(Tail(s))

RECURSIVE BagSum(_, _)
\* the bag union of f[x] over the finite set S
BagSum(f, S) ==
    IF S = {} THEN EmptyBag
    ELSE LET x == CHOOSE y \in S : TRUE IN f[x] (+) BagSum(f, S \ {x})

\* k copies of every element of bag B
Times(k, B) == [e \in DOMAIN B |-> k * B[e]]

\* ------------------------------------------------------ blob names
\* str.startswith(GCS_ORDER_PREFIX)
HasPrefix(b) ==
    /\ Len(b.path) >= Len(GCS_ORDER_PREFIX)
    /\ SubSeq(b.path, 1, Len(GCS_ORDER_PREFIX)) = GCS_ORDER_PREFIX

\* bucket.list_blobs(prefix=GCS_ORDER_PREFIX)
ListBlobs(bkt) == {b \in bkt : HasPrefix(b)}

\* the source_objects pattern landing/orders/*.json
MatchesSource(b) == HasPrefix(b) /\ b.ext = "json"

\* strftime of the attempt's datetime.now(): attempts are minutes apart
\* (retry_delay, schedule_interval), so each has its own timestamp.
Timestamp(r, try) == "T" \o ToString(r) \o "_" \o ToString(try)

RECURSIVE ReplaceLanding(_, _)
\* path.replace('landing/', 'archive/<timestamp>/') on directory segments
ReplaceLanding(path, stamp) ==
    IF path = << >> THEN << >>
    ELSE IF Head(path) = "landing"
         THEN <<"archive", stamp>> \o ReplaceLanding(Tail(path), stamp)
         ELSE <<Head(path)>> \o ReplaceLanding(Tail(path), stamp)

\* an archive folder kept under the landing prefix
NewNameUnderPrefix(b, stamp) == Blob(b.path \o <<"archive", stamp>>, b.file, b.ext)

\* new_name = blob.name.replace('landing/', f'archive/{timestamp}/')
NewName(b, stamp) == Blob(ReplaceLanding(b.path, stamp), b.file, b.ext)

\* bucket.rename_blob(blob, new_name)
RenameBlob(bkt, b, stamp) == (bkt \ {b}) \cup {NewName(b, stamp)}

\* ------------------------------------------------------ SQL pieces
\* DATE(order_timestamp) = CURRENT_DATE()
InWindow(row, day) == row.order_timestamp.date = day

\* the rows of object f as a bag (WRITE_APPEND adds every record)
LoadedRows(b) == BagOfSeq(FileRows(b.file))

\* the load job: all records of all matched objects appended to staging
AppendToStaging(stg, blobs) == stg (+) BagSum([b \in blobs |-> LoadedRows(b)], blobs)

\* SELECT order_id, COUNT(*) cnt ... GROUP BY order_id
OrderCount(stg, day, id) ==
    LET rows == {o \in BagToSet(stg) : InWindow(o, day) /\ o.order_id = id}
    IN  SetSum([o \in rows |-> stg[o]], rows)

\* ... HAVING cnt > 1
DuplicateGroups(stg, day) ==
    {id \in {o.order_id : o \in BagToSet(stg)} : OrderCount(stg, day, id) > 1}

\* SELECT COUNT(*) = 0 FROM (...): the value BigQueryCheckOperator tests
DuplicateCheckPasses(stg, day) == Cardinality(DuplicateGroups(stg, day)) = 0

\* (SELECT SUM(quantity * unit_price) FROM UNNEST(items)): NULL over no rows
SumItems(items) ==
    IF Len(items) = 0 THEN << >>
    ELSE <<SeqSum([i \in 1..Len(items) |-> items[i].quantity * items[i].unit_price])>>

\* ROUND(..., 2) as calculated_total; ROUND(NULL) is NULL
CalculatedTotal(o) ==
    LET s == SumItems(o.items) IN IF s = << >> THEN << >> ELSE <<Round2(s[1])>>

\* WHERE ABS(calculated_total - total_amount) > 0.01; a NULL comparison is
\* not true, so the row is filtered out
IsMismatch(o) ==
    LET c == CalculatedTotal(o)
    IN  IF c = << >> THEN FALSE ELSE Abs(c[1] - o.total_amount) > Tolerance

Finding(o, r) ==
    [check_type |-> "amount_mismatch", order_id |-> o.order_id,
     calculated_total |-> CalculatedTotal(o), recorded |-> o.total_amount,
     severity |-> "warning", check_timestamp |-> r]

RECURSIVE BagToSeq(_)
\* the rows of a bag in some order, each as often as it occurs
BagToSeq(B) ==
    IF DOMAIN B = {} THEN << >>
    ELSE LET x == CHOOSE y \in DOMAIN B : TRUE
             rest == [e \in DOMAIN B \ {x} |-> B[e]]
         IN  [i \in 1..B[x] |-> x] \o BagToSeq(rest)

\* the rows the INSERT ... SELECT of check_amount_mismatch produces: one per
\* staged row of the window that mismatches
MismatchRows(stg, day) ==
    LET rows == {o \in BagToSet(stg) : InWindow(o, day) /\ IsMismatch(o)}
    IN  [o \in rows |-> stg[o]]

InsertFindings(log, stg, day, r) ==
    LET rows == BagToSeq(MismatchRows(stg, day))
    IN  log \o [i \in 1..Len(rows) |-> Finding(rows[i], r)]

\* the same CASE without its ELSE branch: NULL for an unlisted state
RegionNoElse(st) ==
    IF st \in {"CA", "OR", "WA"} THEN "West"
    ELSE IF st \in {"NY", "NJ", "PA"} THEN "East"
    ELSE IF st \in {"TX", "AZ", "NM"} THEN "South"
    ELSE "NULL"

\* CASE WHEN state IN (...) ... ELSE 'Other' END
Region(st) ==
    IF st \in {"CA", "OR", "WA"} THEN "West"
    ELSE IF st \in {"NY", "NJ", "PA"} THEN "East"
    ELSE IF st \in {"TX", "AZ", "NM"} THEN "South"
    ELSE "Other"

NoCustomer == [customer_id |-> "NULL", customer_tier |-> "NULL"]

NoProduct == [product_id |-> "NULL", product_name |-> "NULL", category |-> "NULL"]

\* LEFT JOIN dim_customers c ON o.customer_id = c.customer_id
CustomerMatches(o) ==
    LET m == {c \in dim_customers : c.customer_id = o.customer_id}
    IN  IF m = {} THEN {NoCustomer} ELSE m

\* LEFT JOIN dim_products p ON item.product_id = p.product_id
ProductMatches(pid) ==
    LET m == {p \in dim_products : p.product_id = pid}
    IN  IF m = {} THEN {NoProduct} ELSE m

\* COALESCE(c.customer_tier, 'bronze')
Coalesce(v, d) == IF v = "NULL" THEN d ELSE v

\* one row of the SELECT list, for line item i of order o (i = 0: the
\* all-NULL item LEFT JOIN UNNEST gives an order without items)
FactRow(o, i, c, p) ==
    [order_id |-> o.order_id,
     customer_id |-> o.customer_id,
     customer_tier |-> Coalesce(c.customer_tier, "bronze"),
     order_timestamp |-> o.order_timestamp,
     order_date |-> o.order_timestamp.date,
     order_hour |-> o.order_timestamp.hour,
     product_id |-> IF i = 0 THEN "NULL" ELSE o.items[i].product_id,
     product_name |-> p.product_name,
     category |-> p.category,
     quantity |-> IF i = 0 THEN << >> ELSE <<o.items[i].quantity>>,
     unit_price |-> IF i = 0 THEN << >> ELSE <<o.items[i].unit_price>>,
     line_total |-> IF i = 0 THEN << >> ELSE <<o.items[i].quantity * o.items[i].unit_price>>,
     total_amount |-> o.total_amount,
     payment_status |-> o.payment_status,
     state |-> o.state,
     region |-> Region(o.state)]

\* staging_orders o LEFT JOIN UNNEST(o.items) LEFT JOIN dims, for one row o
JoinedRows(o) ==
    LET idx == IF Len(o.items) = 0 THEN {0} ELSE 1..Len(o.items)
        J == {<<i, c, p>> \in idx \X (dim_customers \cup {NoCustomer}) \X (dim_products \cup {NoProduct}) :
                 /\ c \in CustomerMatches(o)
                 /\ p \in ProductMatches(IF i = 0 THEN "NULL" ELSE o.items[i].product_id)}
    IN  BagSum([j \in J |-> SetToBag({FactRow(o, j[1], j[2], j[3])})], J)

\* NOT EXISTS (SELECT 1 FROM fact_orders f WHERE f.order_id = o.order_id)
NotInFact(o, fact) == ~ \E f \in BagToSet(fact) : f.order_id = o.order_id

\* the same INSERT ... SELECT without its NOT EXISTS clause
TransformRowsNoExists(stg, fact, day) ==
    LET new == {o \in BagToSet(stg) : InWindow(o, day)}
    IN  BagSum([o \in new |-> Times(stg[o], JoinedRows(o))], new)

\* the rows the INSERT ... SELECT of transform_to_fact_orders produces
TransformRows(stg, fact, day) ==
    LET new == {o \in BagToSet(stg) : InWindow(o, day) /\ NotInFact(o, fact)}
    IN  BagSum([o \in new |-> Times(stg[o], JoinedRows(o))], new)

\* TIMESTAMP_TRUNC(order_timestamp, HOUR)
TruncHour(t) == [date |-> t.date, hour |-> t.hour, minute |-> 0]

\* the USING subquery of the MERGE: one row per hour of the window
HourlyRows(fact, day) ==
    LET rows == {f \in BagToSet(fact) : InWindow(f, day)}
        hours == {TruncHour(f.order_timestamp) : f \in rows}
        grp(h) == {f \in rows : TruncHour(f.order_timestamp) = h}
        cnt(h) == SetSum([f \in grp(h) |-> fact[f]], grp(h))
        rev(h) == SetSum([f \in grp(h) |-> fact[f] * f.total_amount], grp(h))
    IN  {[metric_hour |-> h,
          total_orders |-> Cardinality({f.order_id : f \in grp(h)}),
          total_revenue |-> rev(h),
          avg_order_value |-> rev(h) \div cnt(h),
          unique_customers |-> Cardinality({f.customer_id : f \in grp(h)})] : h \in hours}

Stamped(s, now) ==
    [metric_hour |-> s.metric_hour, total_orders |-> s.total_orders,
     total_revenue |-> s.total_revenue, avg_order_value |-> s.avg_order_value,
     unique_customers |-> s.unique_customers, updated_at |-> now]

\* a MERGE whose WHEN MATCHED branch adds to the stored metrics
MergeHourlyAccumulate(T, S, now) ==
    LET matched(t) == {s \in S : s.metric_hour = t.metric_hour}
        add(t, s) == [metric_hour |-> t.metric_hour,
                      total_orders |-> t.total_orders + s.total_orders,
                      total_revenue |-> t.total_revenue + s.total_revenue,
                      avg_order_value |-> s.avg_order_value,
                      unique_customers |-> t.unique_customers + s.unique_customers,
                      updated_at |-> now]
        updated == {IF matched(t) = {} THEN t
                    ELSE add(t, CHOOSE s \in matched(t) : TRUE) : t \in T}
        inserted == {Stamped(s, now) : s \in {x \in S : \A t \in T : t.metric_hour # x.metric_hour}}
    IN  updated \cup inserted

\* MERGE T USING S ON T.metric_hour = S.metric_hour
\*   WHEN MATCHED THEN UPDATE SET ... WHEN NOT MATCHED THEN INSERT ...
MergeHourly(T, S, now) ==
    LET matched(t) == {s \in S : s.metric_hour = t.metric_hour}
        updated == {IF matched(t) = {} THEN t
                    ELSE Stamped(CHOOSE s \in matched(t) : TRUE, now) : t \in T}
        inserted == {Stamped(s, now) : s \in {x \in S : \A t \in T : t.metric_hour # x.metric_hour}}
    IN  updated \cup inserted

\* ----------------------------------------------------------- state
VARIABLES
    bucket,                 \* the blob names in GCS_BUCKET
    today,                  \* CURRENT_DATE()
    staging_orders,         \* bag of order rows
    data_quality_checks,    \* sequence of findings, check_id = position
    fact_orders,            \* bag of fact rows
    agg_hourly_metrics,     \* set of metric rows
    pc,                     \* per run: the task to execute next, or the end state
    tries,                  \* per run: failed attempts of the current task
    elapsed,                \* per run: seconds the sensor has been poking
    dup,                    \* per run: state of check_duplicate_orders
    amt,                    \* per run: state of check_amount_mismatch
    todo,                   \* per run: blobs the archive loop has yet to rename
    stamp,                  \* per run: timestamp of the current archive attempt
    loadSet,                \* per run: the blobs its load job read
    moves,                  \* per run: the renames it made, in order
    ran,                    \* per run: the tasks that have executed
    inserted,               \* per run: the rows it inserted into fact_orders
    dupFound,               \* per run: the duplicate ids its last check saw
    partial,                \* per run: a rename failed after another succeeded
    merged,                 \* a transform has run on this staging table and date
    repeated,               \* a transform has been repeated on them
    reinserted              \* rows inserted by such a repeated transform

vars == <<bucket, today, staging_orders, data_quality_checks, fact_orders,
          agg_hourly_metrics, pc, tries, elapsed, dup, amt, todo, stamp,
          loadSet, moves, ran, inserted, dupFound, partial,
          merged, repeated, reinserted>>

tables == <<staging_orders, data_quality_checks, fact_orders, agg_hourly_metrics>>

ghosts == <<loadSet, moves, inserted, dupFound, partial, merged, repeated, reinserted>>

Ended == {"success", "failed", "aborted"}

\* the DAG run has reached an end state: success, failed or aborted; a
\* failed duplicate check ends the run once the sibling check is through
RunEnded(r) ==
    \/ pc[r] \in Ended
    \/ pc[r] = "checks" /\ dup[r] = "failed" /\ amt[r] = "success"

RunFailed(r) ==
    \/ pc[r] = "failed"
    \/ pc[r] = "checks" /\ dup[r] = "failed" /\ amt[r] = "success"

Init ==
    /\ bucket = {}
    /\ today = 1
    /\ staging_orders = EmptyBag
    /\ data_quality_checks = << >>
    /\ fact_orders = EmptyBag
    /\ agg_hourly_metrics = {}
    /\ pc = [r \in Runs |-> "scheduled"]
    /\ tries = [r \in Runs |-> 0]
    /\ elapsed = [r \in Runs |-> 0]
    /\ dup = [r \in Runs |-> "none"]
    /\ amt = [r \in Runs |-> "none"]
    /\ todo = [r \in Runs |-> {}]
    /\ stamp = [r \in Runs |-> "NULL"]
    /\ loadSet = [r \in Runs |-> {}]
    /\ moves = [r \in Runs |-> << >>]
    /\ ran = [r \in Runs |-> {}]
    /\ inserted = [r \in Runs |-> EmptyBag]
    /\ dupFound = [r \in Runs |-> {}]
    /\ partial = [r \in Runs |-> FALSE]
    /\ merged = FALSE
    /\ repeated = FALSE
    /\ reinserted = EmptyBag

\* ------------------------------------------------------ environment
\* the source system writes a new object under the landing prefix
ObjectArrives(f) ==
    /\ \A b \in bucket : b.file # f
    /\ bucket' = bucket \cup {LandingBlob(f)}
    /\ UNCHANGED <<today, tables, pc, tries, elapsed, dup, amt, todo, stamp, ghosts, ran>>

\* midnight: CURRENT_DATE() moves on
DayRolls ==
    /\ today < MaxDay
    /\ today' = today + 1
    /\ merged' = FALSE
    /\ UNCHANGED <<bucket, tables, pc, tries, elapsed, dup, amt, todo, stamp, ran,
                   loadSet, moves, inserted, dupFound, partial, repeated, reinserted>>

\* the scheduler creates the next DAG run; the previous one has ended
StartRun(r) ==
    /\ pc[r] = "scheduled"
    /\ \A q \in Runs : q < r => RunEnded(q)
    /\ pc' = [pc EXCEPT ![r] = "check_new_files"]
    /\ UNCHANGED <<bucket, today, tables, tries, elapsed, dup, amt, todo, stamp, ghosts, ran>>

\* a run is cancelled between two tasks, after the load
AbortRun(r) ==
    /\ \/ pc[r] \in {"transform_to_fact", "update_hourly_agg", "archive_files"}
       \/ pc[r] = "checks" /\ dup[r] \in {"none", "success"}
    /\ pc' = [pc EXCEPT ![r] = "aborted"]
    /\ UNCHANGED <<bucket, today, tables, tries, elapsed, dup, amt, todo, stamp, ghosts, ran>>

\* ------------------------------------------------------------ tasks
\* a sensor without its timeout
NeverTimedOut(r) == FALSE

\* timeout=600: a poke that finds nothing raises AirflowSensorTimeout once
\* the sensor has been running for longer than the timeout
TimedOut(r) == elapsed[r] > timeout

\* Task 1: one poke of GCSObjectsWithPrefixExistenceSensor
check_new_files(r) ==
    /\ pc[r] = "check_new_files"
    /\ IF ListBlobs(bucket) # {}
       THEN /\ pc' = [pc EXCEPT ![r] = "load_to_staging"]
            /\ ran' = [ran EXCEPT ![r] = @ \cup {"check_new_files"}]
            /\ elapsed' = [elapsed EXCEPT ![r] = 0]
       ELSE IF TimedOut(r)
       THEN /\ pc' = [pc EXCEPT ![r] = "failed"]
            /\ elapsed' = [elapsed EXCEPT ![r] = 0]
            /\ UNCHANGED ran
       ELSE /\ elapsed' = [elapsed EXCEPT ![r] = @ + poke_interval]
            /\ UNCHANGED <<pc, ran>>
    /\ UNCHANGED <<bucket, today, tables, tries, dup, amt, todo, stamp, ghosts>>

\* Task 2: the load job over landing/orders/*.json, WRITE_APPEND
load_to_staging(r) ==
    /\ pc[r] = "load_to_staging"
    /\ LET src == {b \in bucket : MatchesSource(b)}
       IN  /\ staging_orders' = AppendToStaging(staging_orders, src)
           /\ loadSet' = [loadSet EXCEPT ![r] = src]
           /\ merged' = (merged /\ staging_orders' = staging_orders)
    /\ pc' = [pc EXCEPT ![r] = "checks"]
    /\ ran' = [ran EXCEPT ![r] = @ \cup {"load_to_staging"}]
    /\ UNCHANGED <<bucket, today, data_quality_checks, fact_orders, agg_hourly_metrics,
                   tries, elapsed, dup, amt, todo, stamp, moves, inserted, dupFound, partial, repeated, reinserted>>

\* Task 3: one attempt of BigQueryCheckOperator; a false value fails the
\* attempt, which is retried `retries` times
check_duplicates(r) ==
    /\ pc[r] = "checks"
    /\ dup[r] \in {"none", "up_for_retry"}
    /\ dupFound' = [dupFound EXCEPT ![r] = DuplicateGroups(staging_orders, today)]
    /\ IF DuplicateCheckPasses(staging_orders, today)
       THEN /\ dup' = [dup EXCEPT ![r] = "success"]
            /\ ran' = [ran EXCEPT ![r] = @ \cup {"check_duplicates"}]
            /\ UNCHANGED tries
       ELSE /\ dup' = [dup EXCEPT ![r] = IF tries[r] < retries THEN "up_for_retry" ELSE "failed"]
            /\ tries' = [tries EXCEPT ![r] = @ + 1]
            /\ UNCHANGED ran
    /\ UNCHANGED <<bucket, today, tables, pc, elapsed, amt, todo, stamp,
                   loadSet, moves, inserted, partial, merged, repeated, reinserted>>

\* Task 4: the INSERT of the amount-mismatch findings
check_amount_mismatch(r) ==
    /\ pc[r] = "checks"
    /\ amt[r] = "none"
    /\ data_quality_checks' = InsertFindings(data_quality_checks, staging_orders, today, r)
    /\ amt' = [amt EXCEPT ![r] = "success"]
    /\ ran' = [ran EXCEPT ![r] = @ \cup {"check_amount_mismatch"}]
    /\ UNCHANGED <<bucket, today, staging_orders, fact_orders, agg_hourly_metrics,
                   pc, tries, elapsed, dup, todo, stamp,
                   loadSet, moves, inserted, dupFound, partial, merged, repeated, reinserted>>

\* the dependency under trigger rule all_done: upstream finished, however
UpstreamDone(r) == dup[r] \in {"success", "failed"} /\ amt[r] = "success"

\* a dependency line that leaves check_duplicates out of the fan-in
UpstreamAmountOnly(r) == amt[r] = "success"

\* lines 236-237 with the default trigger rule: a task runs once all its
\* upstream tasks have succeeded
UpstreamOk(r) == dup[r] = "success" /\ amt[r] = "success"

\* Task 5: one attempt of INSERT INTO fact_orders, once both checks have
\* succeeded.  The job commits; an attempt whose outcome is lost after the
\* commit is retried `retries` times, like any failed attempt.
transform_to_fact(r) ==
    /\ \/ pc[r] = "checks" /\ UpstreamOk(r)
       \/ pc[r] = "transform_to_fact"
    /\ LET rows == TransformRows(staging_orders, fact_orders, today)
       IN  /\ fact_orders' = fact_orders (+) rows
           /\ inserted' = [inserted EXCEPT ![r] = @ (+) rows]
           /\ reinserted' = IF merged THEN reinserted (+) rows ELSE reinserted
    /\ merged' = TRUE
    /\ repeated' = (repeated \/ merged)
    /\ ran' = [ran EXCEPT ![r] = @ \cup {"transform_to_fact"}]
    /\ LET failures == IF pc[r] = "checks" THEN 0 ELSE tries[r]
       IN  \E lost \in BOOLEAN :
             IF ~lost
             THEN /\ pc' = [pc EXCEPT ![r] = "update_hourly_agg"]
                  /\ tries' = [tries EXCEPT ![r] = 0]
             ELSE /\ pc' = [pc EXCEPT ![r] = IF failures < retries THEN "transform_to_fact" ELSE "failed"]
                  /\ tries' = [tries EXCEPT ![r] = failures + 1]
    /\ UNCHANGED <<bucket, today, staging_orders, data_quality_checks, agg_hourly_metrics,
                   elapsed, dup, amt, todo, stamp, loadSet, moves, dupFound, partial>>

\* Task 6: the MERGE into agg_hourly_metrics
update_hourly_agg(r) ==
    /\ pc[r] = "update_hourly_agg"
    /\ agg_hourly_metrics' = MergeHourly(agg_hourly_metrics, HourlyRows(fact_orders, today), r)
    /\ pc' = [pc EXCEPT ![r] = "archive_files"]
    /\ ran' = [ran EXCEPT ![r] = @ \cup {"update_hourly_agg"}]
    /\ UNCHANGED <<bucket, today, staging_orders, data_quality_checks, fact_orders,
                   tries, elapsed, dup, amt, todo, stamp,
                   loadSet, moves, inserted, dupFound, partial, merged, repeated, reinserted>>

\* Task 7, lines 217-221: list the prefix, take the timestamp
ArchiveList(r) ==
    /\ pc[r] = "archive_files"
    /\ LET blobs == {b \in ListBlobs(bucket) : b.ext = "json"}
       IN  /\ todo' = [todo EXCEPT ![r] = blobs]
           /\ IF blobs = {}
              THEN /\ pc' = [pc EXCEPT ![r] = "success"]
                   /\ ran' = [ran EXCEPT ![r] = @ \cup {"archive_files"}]
              ELSE /\ pc' = [pc EXCEPT ![r] = "renaming"]
                   /\ UNCHANGED ran
    /\ stamp' = [stamp EXCEPT ![r] = Timestamp(r, tries[r])]
    /\ UNCHANGED <<bucket, today, tables, tries, elapsed, dup, amt, ghosts>>

\* the blob the for loop is at: list_blobs yields names in order
NextBlob(S) == CHOOSE b \in S : \A c \in S : c.file = b.file \/ b.file = "a"

\* Task 7, lines 223-227: one pass of the loop, the rename succeeds
ArchiveRename(r) ==
    /\ pc[r] = "renaming"
    /\ LET b == NextBlob(todo[r])
       IN  /\ b \in bucket
           /\ bucket' = RenameBlob(bucket, b, stamp[r])
           /\ moves' = [moves EXCEPT ![r] = Append(@, [from |-> b, to |-> NewName(b, stamp[r])])]
           /\ todo' = [todo EXCEPT ![r] = @ \ {b}]
           /\ IF todo[r] = {b}
              THEN /\ pc' = [pc EXCEPT ![r] = "success"]
                   /\ ran' = [ran EXCEPT ![r] = @ \cup {"archive_files"}]
              ELSE UNCHANGED <<pc, ran>>
    /\ UNCHANGED <<today, tables, tries, elapsed, dup, amt, stamp, loadSet, inserted, dupFound,
                   partial, merged, repeated, reinserted>>

\* Task 7, line 226: rename_blob raises; the exception ends the attempt,
\* which is retried `retries` times and then fails the run
ArchiveRenameFails(r) ==
    /\ pc[r] = "renaming"
    /\ partial' = [partial EXCEPT ![r] = @ \/ Len(moves[r]) > 0]
    /\ tries' = [tries EXCEPT ![r] = @ + 1]
    /\ pc' = [pc EXCEPT ![r] = IF tries[r] < retries THEN "archive_files" ELSE "failed"]
    /\ todo' = [todo EXCEPT ![r] = {}]
    /\ UNCHANGED <<bucket, today, tables, elapsed, dup, amt, stamp, loadSet, moves, inserted,
                   dupFound, ran, merged, repeated, reinserted>>

Next ==
    \/ \E f \in FileNames : ObjectArrives(f)
    \/ DayRolls
    \/ \E r \in Runs : StartRun(r)
    \/ \E r \in Runs : AbortRun(r)
    \/ \E r \in Runs : check_new_files(r)
    \/ \E r \in Runs : load_to_staging(r)
    \/ \E r \in Runs : check_duplicates(r)
    \/ \E r \in Runs : check_amount_mismatch(r)
    \/ \E r \in Runs : transform_to_fact(r)
    \/ \E r \in Runs : update_hourly_agg(r)
    \/ \E r \in Runs : ArchiveList(r)
    \/ \E r \in Runs : ArchiveRename(r)
    \/ \E r \in Runs : ArchiveRenameFails(r)

Spec == Init /\ [][Next]_vars

\* the DAG sets no max_active_runs: the scheduler may create the next DAG
\* run while an earlier one is still running
StartRunOverlapping(r) ==
    /\ pc[r] = "scheduled"
    /\ \A q \in Runs : q < r => pc[q] # "scheduled"
    /\ pc' = [pc EXCEPT ![r] = "check_new_files"]
    /\ UNCHANGED <<bucket, today, tables, tries, elapsed, dup, amt, todo, stamp, ghosts, ran>>

NextOverlap ==
    \/ \E f \in FileNames : ObjectArrives(f)
    \/ DayRolls
    \/ \E r \in Runs : StartRunOverlapping(r)
    \/ \E r \in Runs : AbortRun(r)
    \/ \E r \in Runs : check_new_files(r)
    \/ \E r \in Runs : load_to_staging(r)
    \/ \E r \in Runs : check_duplicates(r)
    \/ \E r \in Runs : check_amount_mismatch(r)
    \/ \E r \in Runs : transform_to_fact(r)
    \/ \E r \in Runs : update_hourly_agg(r)
    \/ \E r \in Runs : ArchiveList(r)
    \/ \E r \in Runs : ArchiveRename(r)
    \/ \E r \in Runs : ArchiveRenameFails(r)

\* runs of the DAG that may overlap
SpecOverlap == Init /\ [][NextOverlap]_vars

\* =================================================================
\* Properties
\* =================================================================

\* the fact rows of one order
FactRowsOf(fact, id) ==
    LET rows == {f \in BagToSet(fact) : f.order_id = id} IN [f \in rows |-> fact[f]]

\* C1: Fact Merge is idempotent.  A transform executed again on the staging
\* table and date of the previous transform inserts no row; once a transform
\* has run on the current staging table and date, another one would insert
\* nothing, and every order staged once in the window has each of its line
\* items in the fact store exactly once.
C1_FactMergeIdempotent ==
    /\ reinserted = EmptyBag
    /\ merged =>
         /\ TransformRows(staging_orders, fact_orders, today) = EmptyBag
         /\ \A o \in BagToSet(staging_orders) :
              InWindow(o, today) /\ OrderCount(staging_orders, today, o.order_id) = 1
                => FactRowsOf(fact_orders, o.order_id) = JoinedRows(o)

\* a transform has been repeated on unchanged staging, with rows in the store
C1_Witness ==
    /\ repeated
    /\ merged
    /\ \E f \in BagToSet(fact_orders) : f.order_id = "O1" /\ InWindow(f, today)

\* C2: when the duplicate check sees an order_id more than once in the
\* window, the attempt does not succeed, it fails the task once the retries
\* are used up, and the run executes neither Fact Merge nor a later task and
\* inserts nothing into the fact store.
C2_DuplicatesBlockMerge ==
    \A r \in Runs :
        dupFound[r] # {} =>
            /\ dup[r] \in {"up_for_retry", "failed"}
            /\ tries[r] > retries => dup[r] = "failed"
            /\ ran[r] \cap {"transform_to_fact", "update_hourly_agg", "archive_files"} = {}
            /\ inserted[r] = EmptyBag
            /\ moves[r] = << >>
            /\ pc[r] \in {"checks", "aborted"}

\* a run has failed at the duplicate check
C2_Witness ==
    \E r \in Runs : dupFound[r] # {} /\ dup[r] = "failed" /\ RunFailed(r)

\* the blobs under an archive folder
Archived(bkt) == {b \in bkt : Len(b.path) > 0 /\ b.path[1] = "archive"}

\* C3: no order is lost.  Every order record of an object in the archive
\* namespace has its line items in the fact store.
C3_NoOrderLost ==
    \A b \in Archived(bucket) :
        \A i \in 1..Len(FileRows(b.file)) :
            LET o == FileRows(b.file)[i]
            IN  JoinedRows(o) \sqsubseteq FactRowsOf(fact_orders, o.order_id)

\* the mismatch as the claim words it: the sum over no line items is 0
ClaimedMismatch(o) ==
    Abs(Round2(SeqSum([i \in 1..Len(o.items) |-> o.items[i].quantity * o.items[i].unit_price]))
        - o.total_amount) > Tolerance

\* how many amount_mismatch warnings for order id the step has appended
AppendedFor(id) ==
    Cardinality({i \in (Len(data_quality_checks) + 1)..Len(data_quality_checks') :
                    /\ data_quality_checks'[i].order_id = id
                    /\ data_quality_checks'[i].check_type = "amount_mismatch"
                    /\ data_quality_checks'[i].severity = "warning"})

\* C4: the consistency check appends exactly one amount_mismatch warning for
\* every order of the window whose rounded item sum differs from its total
\* by more than 0.01, none for the other orders, and does not fail.
C4_OneFindingPerMismatch ==
    [][\A r \in Runs :
         check_amount_mismatch(r) =>
             /\ amt'[r] = "success"
             /\ \A o \in BagToSet(staging_orders) :
                  InWindow(o, today) =>
                     AppendedFor(o.order_id) = IF ClaimedMismatch(o) THEN 1 ELSE 0]_vars

OneRowPerHour(T) == \A t, u \in T : t.metric_hour = u.metric_hour => t = u

\* C5: after every execution of the Aggregate Updater, each hour of the
\* window with fact rows has exactly one stored row, equal to the
\* recomputation from the fact store, and no hour has two rows.
C5_AggregateIsRecomputation ==
    [][\A r \in Runs :
         update_hourly_agg(r) =>
             /\ \A s \in HourlyRows(fact_orders', today') :
                  {t \in agg_hourly_metrics' : t.metric_hour = s.metric_hour} = {Stamped(s, r)}
             /\ OneRowPerHour(agg_hourly_metrics')]_vars

\* an hour aggregated by run 1 has been aggregated again by run 2, with one
\* more order in the fact store
C5_Witness ==
    /\ "update_hourly_agg" \in ran[1]
    /\ \E f \in BagToSet(inserted[1]) : f.order_hour = 10
    /\ \E f \in BagToSet(inserted[2]) : f.order_hour = 10
    /\ \E t \in agg_hourly_metrics :
          t.metric_hour.hour = 10 /\ t.updated_at = 2 /\ t.total_orders = 3

\* how often run r has renamed blob b
MovedCount(r, b) == Cardinality({i \in DOMAIN moves[r] : moves[r][i].from = b})

C7_ArchivesOnlyLoadSet ==
    \A r \in Runs : \A i \in DOMAIN moves[r] : moves[r][i].from \in loadSet[r]

\* the objects of run q's load set that it has not moved
Unmoved(q) == loadSet[q] \ {moves[q][i].from : i \in DOMAIN moves[q]}

\* C8: after a run whose archiver failed partway, the next run over the
\* same window, which loads exactly the unmoved objects, passes the
\* duplicate check.
C8_NextRunPassesGates ==
    \A r \in Runs \ {1} :
        ( /\ today = 1
          /\ pc[r - 1] = "failed"
          /\ partial[r - 1]
          /\ Unmoved(r - 1) # {}
          /\ loadSet[r] = Unmoved(r - 1)
          /\ dup[r] # "none" )
        => dupFound[r] = {}

\* C9: after a run aborted past its load, the next run over the same
\* window, which loads the same objects, passes the duplicate check.
C9_RetryAfterAbort ==
    \A r \in Runs \ {1} :
        ( /\ today = 1
          /\ pc[r - 1] = "aborted"
          /\ r = 2 \/ dup[r - 1] = "success"
          /\ loadSet[r - 1] # {}
          /\ loadSet[r] = loadSet[r - 1]
          /\ dup[r] # "none" )
        => dupFound[r] = {}

\* C10: a run in which a rename failed after another had succeeded, and
\* which nobody cancelled, ends as a successful run.
C10_PartialArchiveIsSuccess ==
    \A r \in Runs : partial[r] /\ RunEnded(r) /\ pc[r] # "aborted" => pc[r] = "success"

\* the tasks of the DAG, upstream first
Upstream(task) ==
    CASE task = "check_new_files" -> {}
      [] task = "load_to_staging" -> {"check_new_files"}
      [] task = "check_duplicates" -> {"load_to_staging"}
      [] task = "check_amount_mismatch" -> {"load_to_staging"}
      [] task = "transform_to_fact" -> {"check_duplicates", "check_amount_mismatch"}
      [] task = "update_hourly_agg" -> {"transform_to_fact"}
      [] task = "archive_files" -> {"update_hourly_agg"}

AllTasks ==
    {"check_new_files", "load_to_staging", "check_duplicates", "check_amount_mismatch",
     "transform_to_fact", "update_hourly_agg", "archive_files"}

\* C11: a task of a run has executed only after all its upstream tasks had
\* succeeded (Fact Merge after both checks, the archiver's renames after
\* the aggregate update), and a failed run has not completed its last task:
\* after a failed duplicate check nothing downstream has executed, after a
\* failed transform neither the aggregate update nor a rename.
C11_StageOrder ==
    \A r \in Runs :
        /\ \A t \in ran[r] : Upstream(t) \subseteq ran[r]
        /\ "transform_to_fact" \in ran[r] => dup[r] = "success" /\ amt[r] = "success"
        /\ moves[r] # << >> => "update_hourly_agg" \in ran[r]
        /\ inserted[r] # EmptyBag => "transform_to_fact" \in ran[r]
        /\ RunFailed(r) =>
             /\ "archive_files" \notin ran[r]
             /\ dup[r] # "success" => ran[r] \subseteq {"check_new_files", "load_to_staging", "check_amount_mismatch"}
             /\ "update_hourly_agg" \notin ran[r] => moves[r] = << >>

\* one run has gone through all seven tasks, another has failed in the
\* transform after both checks and has run nothing downstream of it
C11_Witness ==
    \E r, q \in Runs :
        /\ pc[r] = "success" /\ ran[r] = AllTasks
        /\ RunFailed(q) /\ ran[q] = AllTasks \ {"update_hourly_agg", "archive_files"}

\* C12: for a staged order of the window with no line items the consistency
\* check takes 0 as calculated_total: the step appends a finding for it
\* exactly when |0 - total_amount| > 0.01, and the finding records 0.
C12_ZeroItemsTotalZero ==
    [][\A r \in Runs :
         check_amount_mismatch(r) =>
             \A o \in BagToSet(staging_orders) :
                InWindow(o, today) /\ Len(o.items) = 0 =>
                   /\ (AppendedFor(o.order_id) > 0) = (Abs(0 - o.total_amount) > Tolerance)
                   /\ \A i \in (Len(data_quality_checks) + 1)..Len(data_quality_checks') :
                        data_quality_checks'[i].order_id = o.order_id =>
                           data_quality_checks'[i].calculated_total = <<0>>]_vars

\* C13: with two runs that overlap, under every interleaving of their tasks
\* the fact store never holds the line items of an order twice: the fact
\* rows of an order are at most the rows one transform derives from it.
C13_OverlapNoDoubleFact ==
    \A f \in FileNames : \A k \in 1..Len(FileRows(f)) :
        LET o == FileRows(f)[k]
        IN  FactRowsOf(fact_orders, o.order_id) \sqsubseteq JoinedRows(o)

\* C14: a transform inserts, for an order of the window staged once and not
\* yet in the fact store, exactly as many fact rows as the order has line
\* items (none for an order without line items), one per line item, with
\* line_total = quantity * unit_price.
C14_OneFactRowPerItem ==
    [][\A r \in Runs :
         transform_to_fact(r) =>
             \A o \in BagToSet(staging_orders) :
                InWindow(o, today) /\ staging_orders[o] = 1 /\ NotInFact(o, fact_orders) =>
                   LET new == FactRowsOf(fact_orders', o.order_id)
                   IN  /\ BagCardinality(new) = Len(o.items)
                       /\ \A i \in 1..Len(o.items) :
                            \E f \in BagToSet(new) :
                               /\ f.product_id = o.items[i].product_id
                               /\ f.quantity = <<o.items[i].quantity>>
                               /\ f.unit_price = <<o.items[i].unit_price>>
                               /\ f.line_total = <<o.items[i].quantity * o.items[i].unit_price>>]_vars

\* the amount_mismatch findings of the log for order id
FindingsFor(log, id) ==
    {i \in 1..Len(log) : log[i].order_id = id /\ log[i].check_type = "amount_mismatch"}

\* C15: whatever runs have executed, the findings log holds at most one
\* amount_mismatch finding for an order staged once: a run that reads the
\* still-staged row of an order already reported appends no second finding.
C15_OneFindingEver ==
    \A o \in BagToSet(staging_orders) :
        staging_orders[o] = 1 =>
            Cardinality(FindingsFor(data_quality_checks, o.order_id)) <= 1

\* C16: a poke of the sensor changes no object and no table; it succeeds
\* when an object is under the landing prefix; otherwise it fails the run
\* once more than 600 seconds have passed, and only then, or waits another
\* 60 seconds, so that a sensor is never waiting beyond 660 seconds.
C16_SensorBounded ==
    [][\A r \in Runs :
         check_new_files(r) =>
             /\ UNCHANGED <<bucket, tables>>
             /\ IF ListBlobs(bucket) # {}
                THEN pc'[r] = "load_to_staging"
                ELSE /\ pc'[r] \in {"check_new_files", "failed"}
                     /\ (pc'[r] = "failed") = (elapsed[r] > timeout)
                     /\ pc'[r] = "check_new_files" =>
                          /\ elapsed'[r] = elapsed[r] + poke_interval
                          /\ elapsed'[r] <= timeout + poke_interval]_vars

\* one sensor has timed out on an empty prefix, another has succeeded
C16_Witness ==
    \E r, q \in Runs :
        /\ pc[r] = "failed" /\ ran[r] = {}
        /\ "check_new_files" \in ran[q]

\* C17: all the objects one run has moved, the moves of a retried attempt
\* of the archive task included, are under one run timestamp.
C17_OneTimestampPerRun ==
    \A r \in Runs : \A i, j \in DOMAIN moves[r] :
        moves[r][i].to.path[2] = moves[r][j].to.path[2]

\* the mapping of the claim, state by state
ClaimedRegion ==
    [st \in {"CA", "OR", "WA", "NY", "NJ", "PA", "TX", "AZ", "NM"} |->
        CASE st \in {"CA", "OR", "WA"} -> "West"
          [] st \in {"NY", "NJ", "PA"} -> "East"
          [] st \in {"TX", "AZ", "NM"} -> "South"]

\* state codes outside the mapping, and the missing state
OtherStates == {"IL", "FL", "HI", "ca", "", "NULL"}

\* C18: the region of every fact row is the claimed function of its state
\* and of nothing else: West, East or South for the nine listed states,
\* Other for every other state and for a missing state.
C18_RegionIsFunctionOfState ==
    /\ \A f \in BagToSet(fact_orders) :
          f.region = IF f.state \in DOMAIN ClaimedRegion THEN ClaimedRegion[f.state] ELSE "Other"
    /\ \A st \in DOMAIN ClaimedRegion : Region(st) = ClaimedRegion[st]
    /\ \A st \in OtherStates : Region(st) = "Other"

\* the fact store holds rows of all four regions, one of an order without
\* a state
C18_Witness ==
    /\ {f.region : f \in BagToSet(fact_orders)} = {"West", "East", "South", "Other"}
    /\ \E f \in BagToSet(fact_orders) : f.state = "NULL" /\ f.region = "Other"

\* the sum of total_amount over the distinct orders of hour h, each order
\* counted once
RevenueOfOrders(fact, day, h) ==
    LET rows == {f \in BagToSet(fact) : InWindow(f, day) /\ TruncHour(f.order_timestamp) = h}
        ids == {f.order_id : f \in rows}
        amount(id) == (CHOOSE f \in rows : f.order_id = id).total_amount
    IN  SetSum([id \in ids |-> amount(id)], ids)

\* C19: the aggregate update writes, for every hour of the window with fact
\* rows, a total_revenue equal to the sum of total_amount over the distinct
\* orders of the hour and an avg_order_value equal to total_revenue divided
\* by total_orders.
C19_RevenuePerOrder ==
    [][\A r \in Runs :
         update_hourly_agg(r) =>
             \A f \in BagToSet(fact_orders) :
                InWindow(f, today) =>
                   \E t \in agg_hourly_metrics' :
                      /\ t.metric_hour = TruncHour(f.order_timestamp)
                      /\ t.total_revenue = RevenueOfOrders(fact_orders, today, t.metric_hour)
                      /\ t.avg_order_value = t.total_revenue \div t.total_orders]_vars

====
